---- MODULE Spec2Model ----
(***************************************************************************)
(* A model of type_erased_vec (src/src/lib.rs): TypeErasedVec, its typed   *)
(* views VecMut and VecRef, the typed Vec values that enter by from_vec    *)
(* and leave by into_vec, and the allocator's heap they all point into.    *)
(***************************************************************************)
EXTENDS Integers, Sequences, FiniteSets, TLC

(* ------------------------------ bounds --------------------------------- *)

\* Heap addresses the allocator can hand out are 1..NumAddrs.
NumAddrs == 3
\* Largest capacity (in elements) a Vec of a sized type is grown or built to,
\* and largest length a Vec of a zero-sized type is pushed to.
MaxCap == 2
\* Largest number of VecRef views alive over one buffer.
MaxRefs == 2

(* ----------------------------- constants ------------------------------- *)

\* usize::MAX, with usize modelled 8 bits wide: the capacity Vec reports for a
\* zero-sized element type.
UsizeMax == 2^8 - 1

\* The handles of the program: the buffer under study and the one it is
\* cloned into. Every operation but clone concerns one buffer alone, so Spec
\* follows a single buffer through all of them, and SpecClone follows a buffer
\* and its clone through the operations that read, change or release memory.
Bufs == {"a", "b"}
Single == {"a"}

\* Heap addresses; Dangling is the well-aligned non-null placeholder a Vec
\* without an allocation carries (NonNull::dangling).
Addrs == 1..NumAddrs
Dangling == 0

\* Element values of the sized type, the only value of the zero-sized type,
\* and the content of a heap cell never written or no longer allocated.
Values == {"x", "y"}
Unit == "()"
Uninit == "uninit"

\* Layout::new::<T>() of the element types used: a zero-sized type and i32.
ZstLayout == [size |-> 0, align |-> 1]
I32Layout == [size |-> 4, align |-> 4]
ElemLayouts == {ZstLayout, I32Layout}

ElemsOf(L) == IF L.size = 0 THEN {Unit} ELSE Values

(* ------------------------------- state --------------------------------- *)

VARIABLES
    heap,     \* allocator state: address -> [live, size, align, data]
    buf,      \* handle -> the TypeErasedVec it names (st, alloc, ptr, len, cap, layout)
    views,    \* handle -> the VecMut values created from it whose destructor has not run
    refs,     \* handle -> the VecRef values alive over it (each a non-owning Vec)
    vecs,     \* handle -> the typed Vec outside the buffer (before from_vec, after into_vec)
    hist,     \* handle -> history of the buffer: the Vec it was built from (until the
              \*   first get_mut), and the sequence of elements the operations on it
              \*   so far amount to (push appends, pop removes the last, ...)
    badFree,  \* TRUE once deallocate was called on memory that is not a live
              \*   allocation of that layout
    last      \* the last operation: its name, handle, outcome and allocator calls

vars == <<heap, buf, views, refs, vecs, hist, badFree, last>>

NoBuf == [st |-> "absent", alloc |-> FALSE, ptr |-> Dangling, len |-> 0, cap |-> 0,
          layout |-> ZstLayout]
NoVec == [st |-> "none", ptr |-> Dangling, len |-> 0, cap |-> 0, layout |-> ZstLayout]
NoHist == [origin |-> <<>>, expect |-> <<>>]
FreeBlock == [live |-> FALSE, size |-> 0, align |-> 0, data |-> <<>>]

(* ---------------------------- the allocator ---------------------------- *)

FreeAddrs(h) == {a \in Addrs : ~h[a].live}

\* The address allocate places a new block at: the allocator is first-fit, so
\* an address released earlier is handed out again.
FirstFit(h) == {a \in FreeAddrs(h) : \A c \in FreeAddrs(h) : a <= c}

\* Allocator::allocate: a live block of n elements of layout L at address a.
Allocate(h, a, n, L) ==
    [h EXCEPT ![a] = [live |-> TRUE, size |-> L.size * n, align |-> L.align,
                      data |-> [i \in 1..n |-> Uninit]]]

\* Whether deallocate(p, size, align) releases a live allocation of that layout.
ValidFree(h, p, size, align) ==
    p \in Addrs /\ h[p].live /\ h[p].size = size /\ h[p].align = align

\* Allocator::deallocate(p, layout): the block is gone when the call is valid.
Deallocate(h, p, size, align) ==
    IF ValidFree(h, p, size, align) THEN [h EXCEPT ![p] = FreeBlock] ELSE h

\* A read of cell i of the memory at p.
Cell(h, p, i) ==
    IF p \in Addrs /\ h[p].live /\ i <= Len(h[p].data) THEN h[p].data[i] ELSE Uninit

\* The first n elements of layout L stored at p, as slice::from_raw_parts and
\* a Vec's Deref read them.
Slice(h, p, n, L) ==
    [i \in 1..n |-> IF L.size = 0 THEN Unit ELSE Cell(h, p, i)]

(* ------------------------------- Vec<T> -------------------------------- *)

\* Vec::capacity() of a Vec of layout L whose buffer holds n elements.
VecCapacity(L, n) == IF L.size = 0 THEN UsizeMax ELSE n

\* Vec's current_memory: the allocation a Vec of raw parts (cap, L) owns.
VecOwns(cap, L) == L.size > 0 /\ cap > 0

\* The record of an operation: its name, the handle it was called on, whether
\* it panicked, what it returned, the addresses it allocated, its deallocate
\* calls, and the buffer value it overwrote and dropped (Drop for VecMut).
Op(name, b, panicked, ret, allocated, freed) ==
    [op |-> name, b |-> b, panicked |-> panicked, ret |-> ret,
     allocated |-> allocated, freed |-> freed, stale |-> NoBuf]

NoRet == [kind |-> "none", flag |-> FALSE, len |-> 0, cap |-> 0, elems |-> <<>>, name |-> ""]
\* What a call returned: a bool, a slice, a view of a Vec, a name or a number.
RetBool(f) == [NoRet EXCEPT !.kind = "bool", !.flag = f]
RetSlice(es) == [NoRet EXCEPT !.kind = "slice", !.len = Len(es), !.elems = es]
RetVec(v) == [NoRet EXCEPT !.kind = "vec", !.len = v.len, !.cap = v.cap, !.elems = v.elems]
RetName(s) == [NoRet EXCEPT !.kind = "name", !.name = s]
RetCap(n) == [NoRet EXCEPT !.kind = "cap", !.cap = n]

Init ==
    /\ heap = [a \in Addrs |-> FreeBlock]
    /\ buf = [b \in Bufs |-> NoBuf]
    /\ views = [b \in Bufs |-> <<>>]
    /\ refs = [b \in Bufs |-> <<>>]
    /\ vecs = [b \in Bufs |-> NoVec]
    /\ hist = [b \in Bufs |-> NoHist]
    /\ badFree = FALSE
    /\ last = [op |-> "init", b |-> "a", panicked |-> FALSE, ret |-> NoRet,
               allocated |-> {}, freed |-> <<>>, stale |-> NoBuf]


\* All sequences over S of length at most n.
SeqsUpTo(S, n) == UNION {[1..k -> S] : k \in 0..n}

\* s without its i-th element.
RemoveAt(s, i) == [j \in 1..(Len(s) - 1) |-> IF j < i THEN s[j] ELSE s[j + 1]]

\* The deallocate calls in `calls` (at most one per operation) applied to h.
ApplyFrees(h, calls) ==
    IF calls = <<>> THEN h
    ELSE Deallocate(h, calls[1].ptr, calls[1].size, calls[1].align)

\* Whether a call in `calls` is not the release of a live allocation of h.
InvalidFrees(h, calls) ==
    \E i \in 1..Len(calls) : ~ValidFree(h, calls[i].ptr, calls[i].size, calls[i].align)

FreeCall(p, size, align) == [ptr |-> p, size |-> size, align |-> align]

\* The addresses an allocation of n elements of layout L may be placed at:
\* the allocator's choice, or the placeholder when nothing is allocated.
Placements(h, n, L) == IF VecOwns(n, L) THEN FirstFit(h) ELSE {Dangling}

\* Vec::with_capacity_in(n): the raw parts of an empty Vec placed at a.
VecWithCapacity(a, n, L) ==
    [ptr |-> a, len |-> 0, cap |-> VecCapacity(L, n), layout |-> L]

\* The deallocate calls of dropping a Vec with raw parts v.
VecDropFrees(v) ==
    IF VecOwns(v.cap, v.layout)
    THEN <<FreeCall(v.ptr, v.layout.size * v.cap, v.layout.align)>>
    ELSE <<>>

(* ---------------------------- TypeErasedVec ---------------------------- *)

Absent(b) == buf[b].st = "absent" /\ vecs[b].st = "none"
Alive(b) == buf[b].st = "alive"
\* No VecMut borrows b any more (each one created was released or forgotten).
NoHeldView(b) == \A i \in 1..Len(views[b]) : views[b][i].forgotten
\* b can be borrowed mutably, moved or dropped: nothing borrows it.
Exclusive(b) == Alive(b) /\ refs[b] = <<>> /\ NoHeldView(b)

\* from_vec: the buffer made of a Vec's raw parts.
\* (mutant: the capacity field takes the Vec's length)
from_vec_len_as_cap(v) ==
    [st |-> "alive", alloc |-> TRUE, ptr |-> v.ptr, len |-> v.len, cap |-> v.len,
     layout |-> v.layout]
from_vec(v) ==
    [st |-> "alive", alloc |-> TRUE, ptr |-> v.ptr, len |-> v.len, cap |-> v.cap,
     layout |-> v.layout]

\* is_leaked: whether the allocator is out.
\* (mutant: the test is inverted)
is_leaked_inverted(s) == s.alloc
is_leaked(s) == ~s.alloc

\* memory: the layout of the allocation behind s, when there is one.
\* (mutant: the size is that of the len elements in use)
memory_of_len(s) ==
    IF s.layout.size > 0 /\ s.cap > 0
    THEN [some |-> TRUE, size |-> s.layout.size * s.len, align |-> s.layout.align]
    ELSE [some |-> FALSE, size |-> 0, align |-> 0]
memory(s) ==
    IF s.layout.size > 0 /\ s.cap > 0
    THEN [some |-> TRUE, size |-> s.layout.size * s.cap, align |-> s.layout.align]
    ELSE [some |-> FALSE, size |-> 0, align |-> 0]

\* Drop for TypeErasedVec: the deallocate calls of dropping the value s.
\* (mutant: deallocate is given the layout of one element, not of the block)
drop_frees_elem_layout(s) ==
    IF memory(s).some /\ s.alloc
    THEN <<FreeCall(s.ptr, s.layout.size, s.layout.align)>>
    ELSE <<>>
drop_frees(s) ==
    IF memory(s).some /\ s.alloc
    THEN <<FreeCall(s.ptr, memory(s).size, memory(s).align)>>
    ELSE <<>>

\* The typed view of the raw parts of s: Vec::from_raw_parts_in(ptr, len, cap).
\* (mutant: the view is typed with a zero-sized element type)
RawParts_retyped(s) == [ptr |-> s.ptr, len |-> s.len, cap |-> s.cap, layout |-> ZstLayout]
RawParts(s) == [ptr |-> s.ptr, len |-> s.len, cap |-> s.cap, layout |-> s.layout]

\* The elements a Vec (or slice) with raw parts v holds in heap h.
Elems(h, v) == Slice(h, v.ptr, v.len, v.layout)

\* new_in / new: from_vec(Vec::new_in(alloc)).
\* (mutant: the Vec is built with room for one element)
new_in_reserves(b, L) ==
    /\ Absent(b)
    /\ \E a \in Placements(heap, 1, L) :
        /\ heap' = IF VecOwns(1, L) THEN Allocate(heap, a, 1, L) ELSE heap
        /\ buf' = [buf EXCEPT ![b] = from_vec(VecWithCapacity(a, 1, L))]
        /\ last' = Op("new_in", b, FALSE, NoRet, IF VecOwns(1, L) THEN {a} ELSE {}, <<>>)
    /\ hist' = [hist EXCEPT ![b] = NoHist]
    /\ UNCHANGED <<views, refs, vecs, badFree>>
new_in(b, L) ==
    /\ Absent(b)
    /\ buf' = [buf EXCEPT ![b] = from_vec(VecWithCapacity(Dangling, 0, L))]
    /\ hist' = [hist EXCEPT ![b] = NoHist]
    /\ last' = Op("new_in", b, FALSE, NoRet, {}, <<>>)
    /\ UNCHANGED <<heap, views, refs, vecs, badFree>>

\* with_capacity_in / with_capacity: from_vec(Vec::with_capacity_in(n, alloc)).
\* (mutant: the requested capacity is ignored, the Vec is built by Vec::new_in)
with_capacity_in_empty(b, n, L) ==
    /\ Absent(b)
    /\ buf' = [buf EXCEPT ![b] = from_vec(VecWithCapacity(Dangling, 0, L))]
    /\ last' = Op("with_capacity_in", b, FALSE, RetCap(n), {}, <<>>)
    /\ hist' = [hist EXCEPT ![b] = NoHist]
    /\ UNCHANGED <<heap, views, refs, vecs, badFree>>
with_capacity_in(b, n, L) ==
    /\ Absent(b)
    /\ \E a \in Placements(heap, n, L) :
        /\ heap' = IF VecOwns(n, L) THEN Allocate(heap, a, n, L) ELSE heap
        /\ buf' = [buf EXCEPT ![b] = from_vec(VecWithCapacity(a, n, L))]
        /\ last' = Op("with_capacity_in", b, FALSE, RetCap(n),
                      IF VecOwns(n, L) THEN {a} ELSE {}, <<>>)
    /\ hist' = [hist EXCEPT ![b] = NoHist]
    /\ UNCHANGED <<views, refs, vecs, badFree>>

\* The caller builds a Vec of the elements es with capacity n (collect, vec!).
MakeVec(b, L, es, n) ==
    /\ Absent(b)
    /\ Len(es) <= n
    /\ \E a \in Placements(heap, n, L) :
        /\ heap' = IF VecOwns(n, L)
                   THEN [Allocate(heap, a, n, L) EXCEPT
                           ![a].data = [i \in 1..n |-> IF i <= Len(es) THEN es[i] ELSE Uninit]]
                   ELSE heap
        /\ vecs' = [vecs EXCEPT ![b] =
                      [st |-> "in", ptr |-> a, len |-> Len(es), cap |-> VecCapacity(L, n),
                       layout |-> L]]
        /\ last' = Op("make_vec", b, FALSE, NoRet, IF VecOwns(n, L) THEN {a} ELSE {}, <<>>)
    /\ UNCHANGED <<buf, views, refs, hist, badFree>>

\* from_vec(vec): the Vec built by the caller is erased into the buffer.
FromVec(b) ==
    /\ buf[b].st = "absent"
    /\ vecs[b].st = "in"
    /\ buf' = [buf EXCEPT ![b] = from_vec(vecs[b])]
    /\ vecs' = [vecs EXCEPT ![b] = NoVec]
    /\ hist' = [hist EXCEPT ![b] =
                  [origin |-> <<[ptr |-> vecs[b].ptr, len |-> vecs[b].len,
                                 cap |-> vecs[b].cap, elems |-> Elems(heap, vecs[b])]>>,
                   expect |-> Elems(heap, vecs[b])]]
    /\ last' = Op("from_vec", b, FALSE, NoRet, {}, <<>>)
    /\ UNCHANGED <<heap, views, refs, badFree>>

\* is_leaked(&self).
IsLeaked(b) ==
    /\ Alive(b)
    /\ last' = Op("is_leaked", b, FALSE, RetBool(is_leaked(buf[b])), {}, <<>>)
    /\ UNCHANGED <<heap, buf, views, refs, vecs, hist, badFree>>

\* get(&self): assert!(!self.is_leaked()), then the slice of the first len elements.
\* (mutant: the assertion is missing)
get_unchecked(b) ==
    /\ Alive(b)
    /\ last' = Op("get", b, FALSE, RetSlice(Elems(heap, RawParts(buf[b]))), {}, <<>>)
    /\ UNCHANGED <<heap, buf, views, refs, vecs, hist, badFree>>
get(b) ==
    /\ Alive(b)
    /\ last' = IF is_leaked(buf[b])
               THEN Op("get", b, TRUE, NoRet, {}, <<>>)
               ELSE Op("get", b, FALSE, RetSlice(Elems(heap, RawParts(buf[b]))), {}, <<>>)
    /\ UNCHANGED <<heap, buf, views, refs, vecs, hist, badFree>>

\* allocator(&self): assert!(!self.is_leaked()), then the allocator.
\* (mutant: the allocator is taken out of the buffer instead of borrowed)
allocator_takes(b) ==
    /\ Alive(b)
    /\ last' = IF is_leaked(buf[b])
               THEN Op("allocator", b, TRUE, NoRet, {}, <<>>)
               ELSE Op("allocator", b, FALSE, RetName("Global"), {}, <<>>)
    /\ buf' = [buf EXCEPT ![b].alloc = FALSE]
    /\ UNCHANGED <<heap, views, refs, vecs, hist, badFree>>
allocator(b) ==
    /\ Alive(b)
    /\ last' = IF is_leaked(buf[b])
               THEN Op("allocator", b, TRUE, NoRet, {}, <<>>)
               ELSE Op("allocator", b, FALSE, RetName("Global"), {}, <<>>)
    /\ UNCHANGED <<heap, buf, views, refs, vecs, hist, badFree>>

\* VecRef::new(raw): a non-owning Vec over the buffer's raw parts.
VecRef_new(s) == RawParts(s)

\* What a VecRef shows through Deref: len(), capacity() and the elements.
Shown(h, v) == [len |-> v.len, cap |-> v.cap, elems |-> Elems(h, v)]

\* get_ref(&self): assert!(!self.is_leaked()), then VecRef::new(self).
\* (mutant: the assertion is missing)
get_ref_unchecked(b) ==
    /\ Alive(b)
    /\ Len(refs[b]) < MaxRefs
    /\ refs' = [refs EXCEPT ![b] = Append(@, VecRef_new(buf[b]))]
    /\ last' = Op("get_ref", b, FALSE, RetVec(Shown(heap, VecRef_new(buf[b]))), {}, <<>>)
    /\ UNCHANGED <<heap, buf, views, vecs, hist, badFree>>
get_ref(b) ==
    /\ Alive(b)
    /\ IF is_leaked(buf[b])
       THEN /\ last' = Op("get_ref", b, TRUE, NoRet, {}, <<>>)
            /\ refs' = refs
       ELSE /\ Len(refs[b]) < MaxRefs
            /\ refs' = [refs EXCEPT ![b] = Append(@, VecRef_new(buf[b]))]
            /\ last' = Op("get_ref", b, FALSE, RetVec(Shown(heap, VecRef_new(buf[b]))), {}, <<>>)
    /\ UNCHANGED <<heap, buf, views, vecs, hist, badFree>>

\* Clone for VecRef: Self::new(self.raw).
VecRef_clone(b) ==
    /\ Alive(b)
    /\ refs[b] # <<>>
    /\ Len(refs[b]) < MaxRefs
    /\ refs' = [refs EXCEPT ![b] = Append(@, VecRef_new(buf[b]))]
    /\ last' = Op("vecref_clone", b, FALSE, RetVec(Shown(heap, VecRef_new(buf[b]))), {}, <<>>)
    /\ UNCHANGED <<heap, buf, views, vecs, hist, badFree>>

\* A VecRef goes out of scope: its ManuallyDrop<Vec> is not dropped.
\* (mutant: the Vec inside is dropped with the view and releases its memory)
VecRef_drop_owning(b, i) ==
    /\ i \in 1..Len(refs[b])
    /\ refs' = [refs EXCEPT ![b] = RemoveAt(@, i)]
    /\ heap' = ApplyFrees(heap, VecDropFrees(refs[b][i]))
    /\ badFree' = (badFree \/ InvalidFrees(heap, VecDropFrees(refs[b][i])))
    /\ last' = Op("vecref_drop", b, FALSE, NoRet, {}, VecDropFrees(refs[b][i]))
    /\ UNCHANGED <<buf, views, vecs, hist>>
VecRef_drop(b, i) ==
    /\ i \in 1..Len(refs[b])
    /\ refs' = [refs EXCEPT ![b] = RemoveAt(@, i)]
    /\ last' = Op("vecref_drop", b, FALSE, NoRet, {}, <<>>)
    /\ UNCHANGED <<heap, buf, views, vecs, hist, badFree>>


\* Clone for TypeErasedVec: a fresh allocation of the same layout when
\* memory() is Some, the first len elements copied into it.
\* (mutant: the fields are copied, pointer included, and nothing is allocated)
\* (mutant: the assertion comes after the allocation)
clone_asserts_late(b, c) ==
    /\ Alive(b)
    /\ \E a \in (IF memory(buf[b]).some THEN FirstFit(heap) ELSE {Dangling}) :
         /\ heap' = IF memory(buf[b]).some
                    THEN [heap EXCEPT ![a] =
                            [live |-> TRUE, size |-> memory(buf[b]).size,
                             align |-> memory(buf[b]).align,
                             data |-> [i \in 1..buf[b].cap |->
                                         IF i <= buf[b].len
                                         THEN Cell(heap, buf[b].ptr, i) ELSE Uninit]]]
                    ELSE heap
         /\ IF is_leaked(buf[b])
            THEN /\ last' = Op("clone", b, TRUE, NoRet,
                               IF memory(buf[b]).some THEN {a} ELSE {}, <<>>)
                 /\ UNCHANGED <<buf, hist>>
            ELSE /\ Absent(c)
                 /\ buf' = [buf EXCEPT ![c] =
                              [st |-> "alive", alloc |-> TRUE, ptr |-> a, len |-> buf[b].len,
                               cap |-> buf[b].cap, layout |-> buf[b].layout]]
                 /\ hist' = [hist EXCEPT ![c] = [origin |-> <<>>, expect |-> hist[b].expect]]
                 /\ last' = Op("clone", b, FALSE, RetName(c),
                               IF memory(buf[b]).some THEN {a} ELSE {}, <<>>)
    /\ UNCHANGED <<views, refs, vecs, badFree>>
clone_shallow(b, c) ==
    /\ Alive(b)
    /\ IF is_leaked(buf[b])
       THEN /\ last' = Op("clone", b, TRUE, NoRet, {}, <<>>)
            /\ UNCHANGED <<buf, hist>>
       ELSE /\ Absent(c)
            /\ buf' = [buf EXCEPT ![c] = buf[b]]
            /\ hist' = [hist EXCEPT ![c] = [origin |-> <<>>, expect |-> hist[b].expect]]
            /\ last' = Op("clone", b, FALSE, RetName(c), {}, <<>>)
    /\ UNCHANGED <<heap, views, refs, vecs, badFree>>
clone(b, c) ==
    /\ Alive(b)
    /\ IF is_leaked(buf[b])
       THEN /\ last' = Op("clone", b, TRUE, NoRet, {}, <<>>)
            /\ UNCHANGED <<heap, buf, hist>>
       ELSE \E a \in (IF memory(buf[b]).some THEN FirstFit(heap) ELSE {Dangling}) :
            /\ heap' = IF memory(buf[b]).some
                       THEN [heap EXCEPT ![a] =
                               [live |-> TRUE, size |-> memory(buf[b]).size,
                                align |-> memory(buf[b]).align,
                                data |-> [i \in 1..buf[b].cap |->
                                            IF i <= buf[b].len
                                            THEN Cell(heap, buf[b].ptr, i) ELSE Uninit]]]
                       ELSE heap
            /\ Absent(c)
            /\ buf' = [buf EXCEPT ![c] =
                         [st |-> "alive", alloc |-> TRUE, ptr |-> a, len |-> buf[b].len,
                          cap |-> buf[b].cap, layout |-> buf[b].layout]]
            /\ hist' = [hist EXCEPT ![c] = [origin |-> <<>>, expect |-> hist[b].expect]]
            /\ last' = Op("clone", b, FALSE, RetName(c),
                          IF memory(buf[b]).some THEN {a} ELSE {}, <<>>)
    /\ UNCHANGED <<views, refs, vecs, badFree>>

(* ------------------------------- VecMut -------------------------------- *)

\* VecMut::new(raw): the typed Vec of the buffer's raw parts, owning the
\* allocator taken out of the buffer.
VecMut_new(s) == [vec |-> RawParts(s), forgotten |-> FALSE]

\* get_mut(&mut self): assert!(!self.is_leaked()), then VecMut::new(self),
\* whose raw.alloc.take().unwrap() panics too when the allocator is out.
\* (mutant: neither check is made, a missing allocator is replaced by a new one)
\* (mutant: the allocator is copied into the view and stays in the buffer)
get_mut_keeps_alloc(b) ==
    /\ Alive(b)
    /\ refs[b] = <<>>
    /\ Len(views[b]) < 2
    /\ views' = [views EXCEPT ![b] = Append(@, VecMut_new(buf[b]))]
    /\ hist' = [hist EXCEPT ![b].origin = <<>>]
    /\ last' = Op("get_mut", b, FALSE, NoRet, {}, <<>>)
    /\ UNCHANGED <<heap, buf, refs, vecs, badFree>>
get_mut_unchecked(b) ==
    /\ Alive(b)
    /\ refs[b] = <<>>
    /\ Len(views[b]) < 2
    /\ views' = [views EXCEPT ![b] = Append(@, VecMut_new(buf[b]))]
    /\ buf' = [buf EXCEPT ![b].alloc = FALSE]
    /\ hist' = [hist EXCEPT ![b].origin = <<>>]
    /\ last' = Op("get_mut", b, FALSE, NoRet, {}, <<>>)
    /\ UNCHANGED <<heap, refs, vecs, badFree>>
get_mut(b) ==
    /\ Alive(b)
    /\ refs[b] = <<>>
    /\ IF is_leaked(buf[b]) \/ ~buf[b].alloc
       THEN /\ last' = Op("get_mut", b, TRUE, NoRet, {}, <<>>)
            /\ UNCHANGED <<buf, views, hist>>
       ELSE /\ views' = [views EXCEPT ![b] = Append(@, VecMut_new(buf[b]))]
            /\ buf' = [buf EXCEPT ![b].alloc = FALSE]
            /\ hist' = [hist EXCEPT ![b].origin = <<>>]
            /\ last' = Op("get_mut", b, FALSE, NoRet, {}, <<>>)
    /\ UNCHANGED <<heap, refs, vecs, badFree>>

\* The VecMut values of b the program still holds.
Held(b) == {i \in 1..Len(views[b]) : ~views[b][i].forgotten}

\* The heap after the Vec v changed its capacity to n elements at address a:
\* the allocation grown or shrunk in place (a = v.ptr), moved (a free address,
\* the elements copied, the old block released), made (v owned nothing) or
\* released (n = 0).
Resized(h, v, a, n) ==
    LET L == v.layout
        kept == [i \in 1..n |-> IF i <= v.len THEN Cell(h, v.ptr, i) ELSE Uninit]
        block == [live |-> TRUE, size |-> L.size * n, align |-> L.align, data |-> kept]
    IN  IF n = 0 THEN ApplyFrees(h, VecDropFrees(v))
        ELSE IF a = v.ptr THEN [h EXCEPT ![a] = block]
        ELSE [ApplyFrees(h, VecDropFrees(v)) EXCEPT ![a] = block]

\* Where a Vec v may find itself after a change of capacity to n > 0.
ResizeTargets(h, v) ==
    FirstFit(h) \cup (IF VecOwns(v.cap, v.layout) THEN {v.ptr} ELSE {})

\* The deallocate calls of that change.
ResizeFrees(v, a) == IF a = v.ptr THEN <<>> ELSE VecDropFrees(v)

\* vec_mut.push(x) through DerefMut: in place when len < capacity, after a
\* growth to some larger capacity otherwise.
\* (mutant: the length is incremented without a look at the capacity)
Push_no_reserve(b, i, x) ==
    /\ i \in Held(b)
    /\ LET v == views[b][i].vec IN
       /\ x \in ElemsOf(v.layout)
       /\ v.len < MaxCap
       /\ heap' = IF v.layout.size > 0 /\ v.len < v.cap
                  THEN [heap EXCEPT ![v.ptr].data[v.len + 1] = x] ELSE heap
       /\ views' = [views EXCEPT ![b][i].vec.len = v.len + 1]
       /\ hist' = [hist EXCEPT ![b].expect = Append(@, x)]
       /\ last' = Op("push", b, FALSE, RetName(x), {}, <<>>)
    /\ UNCHANGED <<buf, refs, vecs, badFree>>
Push(b, i, x) ==
    /\ i \in Held(b)
    /\ LET v == views[b][i].vec IN
       /\ x \in ElemsOf(v.layout)
       /\ v.len < MaxCap
       /\ IF v.len < v.cap
          THEN /\ heap' = IF v.layout.size > 0
                          THEN [heap EXCEPT ![v.ptr].data[v.len + 1] = x] ELSE heap
               /\ views' = [views EXCEPT ![b][i].vec.len = v.len + 1]
               /\ hist' = [hist EXCEPT ![b].expect = Append(@, x)]
               /\ last' = Op("push", b, FALSE, RetName(x), {}, <<>>)
               /\ badFree' = badFree
          ELSE \E n \in (v.len + 1)..MaxCap : \E a \in ResizeTargets(heap, v) :
               /\ heap' = [Resized(heap, v, a, n) EXCEPT ![a].data[v.len + 1] = x]
               /\ views' = [views EXCEPT ![b][i].vec =
                              [v EXCEPT !.ptr = a, !.cap = n, !.len = v.len + 1]]
               /\ hist' = [hist EXCEPT ![b].expect = Append(@, x)]
               /\ last' = Op("push", b, FALSE, RetName(x),
                             IF a = v.ptr THEN {} ELSE {a}, ResizeFrees(v, a))
               /\ badFree' = (badFree \/ InvalidFrees(heap, VecDropFrees(v)))
    /\ UNCHANGED <<buf, refs, vecs>>

\* vec_mut.pop() through DerefMut: the last element is moved out, its cell
\* becomes spare capacity (MaybeUninit) and the allocation stays as it is.
Pop(b, i) ==
    /\ i \in Held(b)
    /\ LET v == views[b][i].vec IN
       /\ v.len > 0
       /\ heap' = IF v.layout.size > 0
                  THEN [heap EXCEPT ![v.ptr].data[v.len] = Uninit] ELSE heap
    /\ views' = [views EXCEPT ![b][i].vec.len = @ - 1]
    /\ hist' = [hist EXCEPT ![b].expect = SubSeq(@, 1, Len(@) - 1)]
    /\ last' = Op("pop", b, FALSE, NoRet, {}, <<>>)
    /\ UNCHANGED <<buf, refs, vecs, badFree>>

\* vec_mut[k] = x through DerefMut.
Overwrite(b, i, k, x) ==
    /\ i \in Held(b)
    /\ LET v == views[b][i].vec IN
       /\ v.layout.size > 0
       /\ x \in ElemsOf(v.layout)
       /\ k \in 1..v.len
       /\ Cell(heap, v.ptr, k) # x
       /\ heap' = [heap EXCEPT ![v.ptr].data[k] = x]
    /\ hist' = [hist EXCEPT ![b].expect = [j \in 1..Len(@) |-> IF j = k THEN x ELSE @[j]]]
    /\ last' = Op("overwrite", b, FALSE, NoRet, {}, <<>>)
    /\ UNCHANGED <<buf, views, refs, vecs, badFree>>

\* vec_mut.shrink_to_fit() through DerefMut: the capacity becomes the length,
\* the allocation shrunk in place or moved, or released when the Vec is empty.
ShrinkToFit(b, i) ==
    /\ i \in Held(b)
    /\ LET v == views[b][i].vec IN
       /\ VecOwns(v.cap, v.layout)
       /\ v.len < v.cap
       /\ \E a \in (IF v.len = 0 THEN {Dangling} ELSE ResizeTargets(heap, v)) :
          /\ heap' = Resized(heap, v, a, v.len)
          /\ views' = [views EXCEPT ![b][i].vec = [v EXCEPT !.ptr = a, !.cap = v.len]]
          /\ last' = Op("shrink_to_fit", b, FALSE, NoRet,
                        IF a = v.ptr \/ a = Dangling THEN {} ELSE {a}, ResizeFrees(v, a))
          /\ badFree' = (badFree \/ InvalidFrees(heap, VecDropFrees(v)))
    /\ UNCHANGED <<buf, refs, vecs, hist>>

\* Drop for VecMut, at the end of its scope or while a panic unwinds through
\* it: *self.raw = TypeErasedVec::from_vec(vec), the overwritten buffer value
\* dropped by the assignment.
\* (mutant: the allocator is put back, the Vec's pointer, length and capacity
\* are not)
VecMut_drop_alloc_only(b, i, how) ==
    /\ i \in Held(b)
    /\ buf[b].st = "alive"
    /\ buf' = [buf EXCEPT ![b].alloc = TRUE]
    /\ views' = [views EXCEPT ![b] = RemoveAt(@, i)]
    /\ last' = [Op(how, b, FALSE, NoRet, {}, <<>>) EXCEPT !.stale = buf[b]]
    /\ UNCHANGED <<heap, refs, vecs, hist, badFree>>
VecMut_drop(b, i, how) ==
    /\ i \in Held(b)
    /\ buf[b].st = "alive"
    /\ buf' = [buf EXCEPT ![b] = from_vec(views[b][i].vec)]
    /\ views' = [views EXCEPT ![b] = RemoveAt(@, i)]
    /\ heap' = ApplyFrees(heap, drop_frees(buf[b]))
    /\ badFree' = (badFree \/ InvalidFrees(heap, drop_frees(buf[b])))
    /\ last' = [Op(how, b, FALSE, NoRet, {}, drop_frees(buf[b])) EXCEPT !.stale = buf[b]]
    /\ UNCHANGED <<refs, vecs, hist>>

\* mem::forget(vec_mut): the destructor of this VecMut never runs.
VecMut_forget(b, i) ==
    /\ i \in Held(b)
    /\ views' = [views EXCEPT ![b][i].forgotten = TRUE]
    /\ last' = Op("forget", b, FALSE, NoRet, {}, <<>>)
    /\ UNCHANGED <<heap, buf, refs, vecs, hist, badFree>>

(* ----------------------- consuming the buffer -------------------------- *)

\* into_vec(self): the Vec of the raw parts and the allocator taken out, self
\* forgotten; when the allocator is out, unwrap panics and self is dropped
\* by the unwinding.
\* (mutant: the Vec is rebuilt with the length as its capacity)
into_vec_len_as_cap(b) ==
    /\ Exclusive(b)
    /\ buf[b].alloc
    /\ vecs' = [vecs EXCEPT ![b] = [[st |-> "out"] @@ RawParts(buf[b]) EXCEPT !.cap = buf[b].len]]
    /\ buf' = [buf EXCEPT ![b].st = "consumed", ![b].alloc = FALSE]
    /\ last' = Op("into_vec", b, FALSE, NoRet, {}, <<>>)
    /\ UNCHANGED <<heap, badFree, views, refs, hist>>
into_vec(b) ==
    /\ Exclusive(b)
    /\ IF ~buf[b].alloc
       THEN /\ buf' = [buf EXCEPT ![b] = [NoBuf EXCEPT !.st = "dropped"]]
            /\ heap' = ApplyFrees(heap, drop_frees(buf[b]))
            /\ badFree' = (badFree \/ InvalidFrees(heap, drop_frees(buf[b])))
            /\ last' = Op("into_vec", b, TRUE, NoRet, {}, drop_frees(buf[b]))
            /\ vecs' = vecs
       ELSE /\ vecs' = [vecs EXCEPT ![b] = [st |-> "out"] @@ RawParts(buf[b])]
            /\ buf' = [buf EXCEPT ![b].st = "consumed", ![b].alloc = FALSE]
            /\ last' = Op("into_vec", b, FALSE, NoRet, {}, <<>>)
            /\ UNCHANGED <<heap, badFree>>
    /\ UNCHANGED <<views, refs, hist>>

\* Drop for TypeErasedVec: the buffer goes out of scope.
\* (mutant: deallocates whenever memory() is Some, the allocator present or not)
\* (mutant: nothing is deallocated)
drop_forgets(b) ==
    /\ Exclusive(b)
    /\ buf' = [buf EXCEPT ![b] = [NoBuf EXCEPT !.st = "dropped"]]
    /\ last' = Op("drop", b, FALSE, NoRet, {}, <<>>)
    /\ UNCHANGED <<heap, badFree, views, refs, vecs, hist>>
drop_without_alloc_check(b) ==
    /\ Exclusive(b)
    /\ LET calls == IF memory(buf[b]).some
                    THEN <<FreeCall(buf[b].ptr, memory(buf[b]).size, memory(buf[b]).align)>>
                    ELSE <<>>
       IN /\ heap' = ApplyFrees(heap, calls)
          /\ badFree' = (badFree \/ InvalidFrees(heap, calls))
          /\ last' = Op("drop", b, FALSE, NoRet, {}, calls)
    /\ buf' = [buf EXCEPT ![b] = [NoBuf EXCEPT !.st = "dropped"]]
    /\ UNCHANGED <<views, refs, vecs, hist>>
drop(b) ==
    /\ Exclusive(b)
    /\ buf' = [buf EXCEPT ![b] = [NoBuf EXCEPT !.st = "dropped"]]
    /\ heap' = ApplyFrees(heap, drop_frees(buf[b]))
    /\ badFree' = (badFree \/ InvalidFrees(heap, drop_frees(buf[b])))
    /\ last' = Op("drop", b, FALSE, NoRet, {}, drop_frees(buf[b]))
    /\ UNCHANGED <<views, refs, vecs, hist>>

\* The Vec outside the buffer (not yet erased, or returned by into_vec) is
\* dropped by its owner.
DropVec(b) ==
    /\ vecs[b].st \in {"in", "out"}
    /\ vecs' = [vecs EXCEPT ![b] = [NoVec EXCEPT !.st = "dropped"]]
    /\ heap' = ApplyFrees(heap, VecDropFrees(vecs[b]))
    /\ badFree' = (badFree \/ InvalidFrees(heap, VecDropFrees(vecs[b])))
    /\ last' = Op("drop_vec", b, FALSE, NoRet, {}, VecDropFrees(vecs[b]))
    /\ UNCHANGED <<buf, views, refs, hist>>

(* --------------------------- specification ----------------------------- *)

Next ==
    \/ \E b \in Single, L \in ElemLayouts : new_in(b, L)
    \/ \E b \in Single, L \in ElemLayouts, n \in 0..MaxCap : with_capacity_in(b, n, L)
    \/ \E b \in Single, L \in ElemLayouts, n \in 0..MaxCap :
         \E es \in SeqsUpTo(ElemsOf(L), n) : MakeVec(b, L, es, n)
    \/ \E b \in Single : FromVec(b)
    \/ \E b \in Single : IsLeaked(b)
    \/ \E b \in Single : get(b)
    \/ \E b \in Single : allocator(b)
    \/ \E b \in Single : get_ref(b)
    \/ \E b \in Single : VecRef_clone(b)
    \/ \E b \in Single : \E i \in 1..Len(refs[b]) : VecRef_drop(b, i)
    \/ \E b \in Single, c \in Single : clone(b, c)
    \/ \E b \in Single : get_mut(b)
    \/ \E b \in Single, x \in Values \cup {Unit} : \E i \in Held(b) : Push(b, i, x)
    \/ \E b \in Single : \E i \in Held(b) : Pop(b, i)
    \/ \E b \in Single, k \in 1..MaxCap, x \in Values :
         \E i \in Held(b) : Overwrite(b, i, k, x)
    \/ \E b \in Single : \E i \in Held(b) : ShrinkToFit(b, i)
    \/ \E b \in Single, how \in {"vecmut_drop", "unwind"} :
         \E i \in Held(b) : VecMut_drop(b, i, how)
    \/ \E b \in Single : \E i \in Held(b) : VecMut_forget(b, i)
    \/ \E b \in Single : into_vec(b)
    \/ \E b \in Single : drop(b)
    \/ \E b \in Single : DropVec(b)

Spec == Init /\ [][Next]_vars

\* A buffer and its clone: construction of the original, clone, and on either
\* of the two a VecMut session (one session at a time) and the drop.
NextClone ==
    \/ \E L \in ElemLayouts, n \in 0..MaxCap : with_capacity_in("a", n, L)
    \/ \E b \in Bufs, c \in Bufs : clone(b, c)
    \/ \E b \in Bufs : (\A c \in Bufs : Held(c) = {}) /\ get_mut(b)
    \/ \E b \in Bufs, x \in Values \cup {Unit} : \E i \in Held(b) : Push(b, i, x)
    \/ \E b \in Bufs : \E i \in Held(b) : Pop(b, i)
    \/ \E b \in Bufs, k \in 1..MaxCap, x \in Values :
         \E i \in Held(b) : Overwrite(b, i, k, x)
    \/ \E b \in Bufs : \E i \in Held(b) : VecMut_drop(b, i, "vecmut_drop")
    \/ \E b \in Bufs : drop(b)

SpecClone == Init /\ [][NextClone]_vars

\* The lifetime of a buffer and its clone: construction, clone, VecMut sessions
\* (one at a time) that grow and shrink the Vec, release or loss of the view,
\* into_vec, and the drop of everything. What is allocated and released does
\* not depend on the values stored, so one value is pushed.
NextLife ==
    \/ \E L \in ElemLayouts, n \in 0..MaxCap : with_capacity_in("a", n, L)
    \/ \E b \in Bufs, c \in Bufs : clone(b, c)
    \/ \E b \in Bufs : (\A c \in Bufs : Held(c) = {}) /\ get_mut(b)
    \/ \E b \in Bufs, x \in {"x", Unit} : \E i \in Held(b) : Push(b, i, x)
    \/ \E b \in Bufs : \E i \in Held(b) : ShrinkToFit(b, i)
    \/ \E b \in Bufs : \E i \in Held(b) : VecMut_drop(b, i, "vecmut_drop")
    \/ \E b \in Bufs : \E i \in Held(b) : VecMut_forget(b, i)
    \/ \E b \in Bufs : into_vec(b)
    \/ \E b \in Bufs : DropVec(b)
    \/ \E b \in Bufs : drop(b)

SpecLife == Init /\ [][NextLife]_vars

(* ------------------------------ properties ----------------------------- *)

Fresh(b) == Alive(b) /\ buf[b].alloc
Leaked(b) == Alive(b) /\ ~buf[b].alloc
\* A VecMut of b was forgotten: its destructor never runs.
HasForgotten(b) == \E i \in 1..Len(views[b]) : views[b][i].forgotten
\* What get returns on a buffer that is not leaked.
Contents(h, s) == Elems(h, RawParts(s))
\* The entry points that must refuse a leaked buffer.
Refusing == {"get", "get_mut", "get_ref", "allocator", "clone", "into_vec"}
\* The destructor of a VecMut, at scope exit or during unwinding.
Releases == {"vecmut_drop", "unwind"}
\* The lifecycle state of a buffer value.
StateOf(s) ==
    IF s.st = "alive" THEN (IF s.alloc THEN "Fresh" ELSE "CheckedOut") ELSE s.st

\* C1: on a leaked buffer (allocator out), a step that calls get, get_mut,
\* get_ref, allocator, clone or into_vec panics and returns nothing, and a
\* step that calls is_leaked returns true without panicking.
C1_LeakedCallsPanic ==
    [][/\ (last'.op \in Refusing /\ Leaked(last'.b))
            => (last'.panicked /\ last'.ret = NoRet)
       /\ (last'.op = "is_leaked" /\ Leaked(last'.b))
            => (~last'.panicked /\ last'.ret = RetBool(TRUE))]_vars

\* get has panicked on a buffer whose VecMut was forgotten.
C1_Witness ==
    /\ last.op = "get" /\ last.b = "a" /\ last.panicked
    /\ Leaked("a") /\ HasForgotten("a")

\* C2: a step in which the destructor of a VecMut runs (scope exit or
\* unwinding) leaves the buffer not leaked, with the pointer, length and
\* capacity the view's Vec had at that moment, and the view is gone.
C2_ReleaseRestores ==
    [][last'.op \in Releases =>
        \E i \in Held(last'.b) :
            /\ views'[last'.b] = RemoveAt(views[last'.b], i)
            /\ StateOf(buf'[last'.b]) = "Fresh"
            /\ buf'[last'.b].ptr = views[last'.b][i].vec.ptr
            /\ buf'[last'.b].len = views[last'.b][i].vec.len
            /\ buf'[last'.b].cap = views[last'.b][i].vec.cap]_vars

\* A view was released during unwinding after its Vec had moved to another
\* allocation (address 1 is the first the allocator hands out) and holds two
\* elements in a larger capacity than it needs.
C2_Witness ==
    /\ last.op = "unwind" /\ last.b = "a" /\ Fresh("a")
    /\ buf["a"].ptr \notin {Dangling, 1}
    /\ buf["a"].len >= 1 /\ buf["a"].len < buf["a"].cap

\* C3: once its VecMut is released, the buffer holds exactly the sequence the
\* operations made through its views amount to (the elements stored before,
\* followed by the values pushed, in order), and get returns that sequence.
C3_PushesVisible ==
    /\ \A b \in Bufs : (Fresh(b) /\ views[b] = <<>>)
           => Contents(heap, buf[b]) = hist[b].expect
    /\ (last.op = "get" /\ ~last.panicked) => last.ret = RetSlice(hist[last.b].expect)

\* get returns two different values in insertion order from a buffer that was
\* checked out and whose allocation moved while it grew.
C3_Witness ==
    /\ last.op = "get" /\ last.b = "a" /\ ~last.panicked
    /\ last.ret = RetSlice(<<"x", "y">>)
    /\ hist["a"].origin = <<>>
    /\ buf["a"].ptr \notin {Dangling, 1}

\* C4: the Vec that into_vec returns for a buffer built by from_vec and never
\* checked out since has the pointer, length, capacity and elements of the Vec
\* from_vec was given, and neither call changes the heap.
C4_RoundTrip ==
    /\ \A b \in Bufs : (vecs[b].st = "out" /\ hist[b].origin # <<>>) =>
           /\ vecs[b].ptr = hist[b].origin[1].ptr
           /\ vecs[b].len = hist[b].origin[1].len
           /\ vecs[b].cap = hist[b].origin[1].cap
           /\ Elems(heap, vecs[b]) = hist[b].origin[1].elems
    /\ (last.op \in {"from_vec", "into_vec"} /\ ~last.panicked)
           => (last.allocated = {} /\ last.freed = <<>>)

\* into_vec has returned a Vec with an element and spare capacity for a buffer
\* that from_vec built.
C4_Witness ==
    /\ last.op = "into_vec" /\ ~last.panicked
    /\ vecs["a"].st = "out" /\ hist["a"].origin # <<>>
    /\ vecs["a"].len >= 1 /\ vecs["a"].len < vecs["a"].cap
    /\ vecs["a"].layout.size > 0

C6_ForgottenStaysLeaked ==
    [][\A b \in Bufs : (Alive(b) /\ HasForgotten(b)) =>
        /\ Leaked(b)
        /\ HasForgotten(b)'
        /\ Alive(b)' => Leaked(b)'
        /\ (last'.op = "is_leaked" /\ last'.b = b) => last'.ret = RetBool(TRUE)]_vars

\* get_mut was called on a buffer whose VecMut was forgotten, and the buffer
\* is still leaked.
C6_Witness ==
    /\ last.op = "get_mut" /\ last.b = "a" /\ last.panicked
    /\ HasForgotten("a") /\ Leaked("a")

C8_CloneIndependent ==
    [][/\ (last'.op = "clone" /\ ~last'.panicked) =>
            LET src == buf'[last'.b]
                dst == buf'[last'.ret.name]
            IN  /\ src = buf[last'.b]
                /\ StateOf(dst) = "Fresh"
                /\ dst.len = src.len /\ dst.cap = src.cap /\ dst.layout = src.layout
                /\ Contents(heap', dst) = Contents(heap', src)
                /\ Contents(heap', src) = Contents(heap, src)
                /\ memory(src).some =>
                       /\ dst.ptr # src.ptr
                       /\ ValidFree(heap', dst.ptr, memory(dst).size, memory(dst).align)
                       /\ ValidFree(heap', src.ptr, memory(src).size, memory(src).align)
       /\ \A b \in Bufs : (Fresh(b) /\ last'.b # b) =>
            /\ buf'[b] = buf[b]
            /\ Contents(heap', buf[b]) = Contents(heap, buf[b])
            /\ memory(buf[b]).some =>
                   ValidFree(heap', buf[b].ptr, memory(buf[b]).size, memory(buf[b]).align)
       /\ ~badFree']_vars

\* A buffer and its clone, both released from their views, each with an
\* allocation of its own, hold different elements.
C8_Witness ==
    /\ Fresh("a") /\ Fresh("b") /\ views["a"] = <<>> /\ views["b"] = <<>>
    /\ buf["a"].len >= 1 /\ buf["b"].len >= 1
    /\ buf["a"].ptr # buf["b"].ptr
    /\ Contents(heap, buf["a"]) # Contents(heap, buf["b"])

\* C9: is_leaked does not panic, and returns true exactly when a VecMut
\* created from the buffer has not had its destructor run; the allocator of
\* a buffer is out exactly in that case.
C9_IsLeakedExact ==
    /\ \A b \in Bufs : Alive(b) => (is_leaked(buf[b]) <=> views[b] # <<>>)
    /\ last.op = "is_leaked" =>
           /\ ~last.panicked
           /\ last.ret = RetBool(views[last.b] # <<>>)

\* is_leaked has returned true while the program holds the VecMut.
C9_Witness ==
    /\ last.op = "is_leaked" /\ last.b = "a" /\ last.ret = RetBool(TRUE)
    /\ Held("a") # {}

\* C10: a buffer has at most one VecMut whose destructor has not run, and
\* while it has one, a call of get_mut, get, get_ref, allocator, clone or
\* into_vec on it panics and creates no view.
C10_OneViewAtATime ==
    [][/\ \A b \in Bufs : Len(views'[b]) <= 1
       /\ (last'.op \in Refusing /\ views[last'.b] # <<>>) =>
            /\ last'.panicked
            /\ views' = views
            /\ refs' = refs]_vars

\* A second get_mut has panicked while the program holds the first VecMut.
C10_Witness ==
    /\ last.op = "get_mut" /\ last.b = "a" /\ last.panicked
    /\ Held("a") # {} /\ Len(views["a"]) = 1

\* The capacity of a buffer just built around an empty Vec asked to hold n
\* elements: n for a sized element type, usize::MAX for a zero-sized one.
BuiltCap(s, n) == IF s.layout.size = 0 THEN UsizeMax ELSE n

\* C11: a buffer just built by new / new_in has length 0 and, for an element
\* type of nonzero size, capacity 0 (for a zero-sized type the capacity is
\* usize::MAX); it is not leaked, the construction called the allocator
\* neither to allocate nor to release, and get and get_ref called right after
\* it return an empty slice and a view of length 0.
C11_EmptyConstruction ==
    [][/\ last'.op = "new_in" =>
            LET s == buf'[last'.b] IN
            /\ StateOf(s) = "Fresh"
            /\ s.len = 0 /\ s.cap = BuiltCap(s, 0)
            /\ last'.allocated = {} /\ last'.freed = <<>> /\ heap' = heap
            /\ memory(s).some = FALSE
       /\ (last.op = "new_in" /\ last'.op = "get") =>
            (~last'.panicked /\ last'.ret = RetSlice(<<>>))
       /\ (last.op = "new_in" /\ last'.op = "get_ref") =>
            /\ ~last'.panicked
            /\ last'.ret = RetVec([len |-> 0, cap |-> BuiltCap(buf[last.b], 0),
                                   elems |-> <<>>])]_vars

\* new has built a buffer of a zero-sized element type: its capacity is
\* usize::MAX, not 0.
C11_Witness ==
    /\ last.op = "new_in" /\ Fresh("a")
    /\ buf["a"].layout = ZstLayout
    /\ buf["a"].len = 0 /\ buf["a"].cap = UsizeMax

\* C11 as stated, for every element type: the buffer new builds has length 0
\* and capacity 0.
C11_AsStated ==
    [][last'.op = "new_in" =>
        (buf'[last'.b].len = 0 /\ buf'[last'.b].cap = 0)]_vars

\* C12: a buffer just built by with_capacity / with_capacity_in for a
\* requested capacity n has length 0 and, for an element type of nonzero
\* size, capacity n (usize::MAX for a zero-sized type); get_ref and get_mut
\* called right after the construction, before anything grew the buffer,
\* give a view whose Vec reports that capacity and length 0.
C12_CapacityReservation ==
    [][/\ last'.op = "with_capacity_in" =>
            LET s == buf'[last'.b] IN
            /\ StateOf(s) = "Fresh"
            /\ s.len = 0 /\ s.cap = BuiltCap(s, last'.ret.cap)
       /\ (last.op = "with_capacity_in" /\ last'.op = "get_ref") =>
            /\ ~last'.panicked
            /\ last'.ret.len = 0
            /\ last'.ret.cap = BuiltCap(buf[last.b], last.ret.cap)
       /\ (last.op = "with_capacity_in" /\ last'.op = "get_mut") =>
            /\ ~last'.panicked
            /\ \E i \in Held(last.b)' :
                  /\ views'[last.b][i].vec.len = 0
                  /\ views'[last.b][i].vec.cap = BuiltCap(buf[last.b], last.ret.cap)]_vars

\* get_ref has returned a view of capacity 2 and length 0 over a buffer of a
\* sized element type that holds an allocation and no element.
C12_Witness ==
    /\ last.op = "get_ref" /\ last.b = "a" /\ ~last.panicked
    /\ last.ret.cap = 2 /\ last.ret.len = 0
    /\ buf["a"].layout = I32Layout /\ buf["a"].ptr \in Addrs
    /\ hist["a"] = NoHist

\* C12 as stated, for every element type: the buffer built for a requested
\* capacity n has capacity n and length 0.
C12_AsStated ==
    [][last'.op = "with_capacity_in" =>
        (buf'[last'.b].len = 0 /\ buf'[last'.b].cap = last'.ret.cap)]_vars

\* C13: in every state, every buffer that exists (fresh, checked out or
\* leaked, a clone or not) has len <= cap, and so has the Vec of every VecMut
\* and VecRef over it and every Vec that entered or left a buffer.
C13_LenWithinCap ==
    /\ \A b \in Bufs : buf[b].st \in {"alive", "consumed"} => buf[b].len <= buf[b].cap
    /\ \A b \in Bufs : \A i \in 1..Len(views[b]) :
           views[b][i].vec.len <= views[b][i].vec.cap
    /\ \A b \in Bufs : \A i \in 1..Len(refs[b]) : refs[b][i].len <= refs[b][i].cap
    /\ \A b \in Bufs : vecs[b].len <= vecs[b].cap

\* A clone that was checked out, filled to its capacity and released, next to
\* its source.
C13_Witness ==
    /\ Fresh("a") /\ Fresh("b") /\ views["b"] = <<>>
    /\ last.op = "vecmut_drop" /\ last.b = "b"
    /\ buf["b"].layout = I32Layout
    /\ buf["b"].len = buf["b"].cap /\ buf["b"].len = MaxCap
    /\ buf["a"].len < buf["b"].len

\* C14: the layout of a buffer is the same after every step as before it, for
\* as long as the buffer exists (through get_mut, the operations on the view,
\* the release); the Vec of a view is of that layout; a clone has the layout
\* of its source.
C14_LayoutFixed ==
    [][/\ \A b \in Bufs :
            (Alive(b) /\ Alive(b)') => buf'[b].layout = buf[b].layout
       /\ \A b \in Bufs : \A i \in 1..Len(views'[b]) :
            Alive(b)' => views'[b][i].vec.layout = buf'[b].layout
       /\ (last'.op = "clone" /\ ~last'.panicked) =>
            buf'[last'.ret.name].layout = buf[last'.b].layout]_vars

\* A buffer of i32 and its clone, one of them resized through a VecMut and
\* released since the clone was made, both still of that layout.
C14_Witness ==
    /\ Fresh("a") /\ Fresh("b")
    /\ last.op = "vecmut_drop"
    /\ buf["a"].layout = I32Layout /\ buf["b"].layout = I32Layout
    /\ buf["a"].cap # buf["b"].cap

\* C15: in every state, a buffer that is not leaked, of an element type of
\* nonzero size and with cap > 0 points to a live allocation of exactly
\* cap * layout.size bytes and alignment layout.align, which is the layout
\* memory() computes, and no other buffer points to it; a buffer that is not
\* leaked and has cap = 0 or a zero-sized element type (whose capacity is
\* usize::MAX) points to no allocation: memory() is None and ptr is the
\* placeholder.
C15_PtrIsLiveAllocation ==
    \A b \in Bufs : Fresh(b) =>
        IF buf[b].layout.size > 0 /\ buf[b].cap > 0
        THEN /\ ValidFree(heap, buf[b].ptr, buf[b].cap * buf[b].layout.size,
                          buf[b].layout.align)
             /\ memory(buf[b]) = [some |-> TRUE, size |-> heap[buf[b].ptr].size,
                                  align |-> heap[buf[b].ptr].align]
             /\ \A c \in Bufs \ {b} : Fresh(c) => buf[c].ptr # buf[b].ptr
        ELSE /\ ~memory(buf[b]).some
             /\ buf[b].ptr = Dangling

\* A buffer and its clone, each with an allocation of its own, one of them
\* just released from a VecMut that moved its Vec to another allocation of
\* another size.
C15_Witness ==
    /\ Fresh("a") /\ Fresh("b")
    /\ last.op = "vecmut_drop" /\ last.b = "b"
    /\ buf["a"].layout = I32Layout /\ buf["a"].cap = MaxCap /\ buf["a"].ptr = 1
    /\ buf["b"].cap = 1 /\ buf["b"].ptr \notin {Dangling, 1, 2}
    /\ heap[buf["b"].ptr].live /\ heap[buf["b"].ptr].size = I32Layout.size

\* C15 as stated, for every element type: a buffer that is not leaked and has
\* cap > 0 points to a live allocation of cap * layout.size bytes.
C15_AsStated ==
    \A b \in Bufs : (Fresh(b) /\ buf[b].cap > 0) =>
        ValidFree(heap, buf[b].ptr, buf[b].cap * buf[b].layout.size, buf[b].layout.align)

\* C16: the drop of a buffer that is not leaked, of an element type of nonzero
\* size and with cap > 0 calls deallocate exactly once, on ptr with size
\* layout.size * cap and alignment layout.align, and that block, live before,
\* is the only thing the heap loses; the drop of a buffer with cap = 0 or of a
\* zero-sized element type (cap = usize::MAX) calls deallocate zero times.
C16_DropDeallocatesOnce ==
    [][last'.op = "drop" =>
        LET s == buf[last'.b] IN
        /\ (s.alloc /\ s.layout.size > 0 /\ s.cap > 0) =>
              /\ last'.freed = <<FreeCall(s.ptr, s.layout.size * s.cap, s.layout.align)>>
              /\ heap[s.ptr].live
              /\ heap' = [heap EXCEPT ![s.ptr] = FreeBlock]
              /\ ~badFree'
        /\ (s.alloc /\ (s.layout.size = 0 \/ s.cap = 0)) =>
              (last'.freed = <<>> /\ heap' = heap)]_vars

\* A buffer with room for two i32 was dropped: one deallocate of 8 bytes, and
\* nothing is allocated any more.
C16_Witness ==
    /\ last.op = "drop" /\ buf["a"].st = "dropped"
    /\ Len(last.freed) = 1 /\ last.freed[1].size = 2 * I32Layout.size
    /\ \A a \in Addrs : ~heap[a].live

\* C16 as stated, for every element type: the drop of a buffer that is not
\* leaked and has cap > 0 calls deallocate exactly once.
C16_AsStated ==
    [][(last'.op = "drop" /\ buf[last'.b].alloc /\ buf[last'.b].cap > 0) =>
        Len(last'.freed) = 1]_vars

\* No buffer, view or Vec is left: every buffer that was made has been dropped
\* or consumed by into_vec, and every Vec into_vec returned has been dropped.
AllDropped ==
    /\ ~Absent("a")
    /\ \A b \in Bufs :
          /\ buf[b].st \in {"absent", "dropped", "consumed"}
          /\ vecs[b].st \in {"none", "dropped"}
          /\ buf[b].st = "consumed" => vecs[b].st = "dropped"
          /\ Held(b) = {} /\ refs[b] = <<>>

\* C17: when no VecMut was forgotten, once the buffer, its clone and every
\* Vec returned by into_vec have been dropped, no allocation is live, and no
\* deallocate call was made on anything but a live allocation (none was
\* released twice).
C17_NoLeak ==
    ((\A b \in Bufs : ~HasForgotten(b)) /\ AllDropped) =>
        /\ \A a \in Addrs : ~heap[a].live
        /\ ~badFree

\* A buffer was consumed by into_vec and the Vec dropped, its clone had grown
\* through a VecMut and was dropped, and the last of these drops released
\* memory.
C17_Witness ==
    /\ AllDropped /\ \A b \in Bufs : ~HasForgotten(b)
    /\ buf["a"].st = "consumed" /\ buf["b"].st = "dropped"
    /\ Len(hist["b"].expect) > Len(hist["a"].expect)
    /\ last.op = "drop_vec" /\ last.freed # <<>>

\* The steps that create, clone or drop a VecRef.
VecRefOps == {"get_ref", "vecref_clone", "vecref_drop"}

\* C18: a step that creates a VecRef by get_ref, clones one or drops one
\* leaves the buffer as it was (allocator present, same ptr, len, cap and
\* layout) and the heap as it was, and calls neither allocate nor deallocate;
\* every VecRef alive over a buffer, however many there are, shows the
\* buffer's len, cap and elements, and the buffer is not leaked.
C18_VecRefFrame ==
    [][/\ (last'.op \in VecRefOps /\ ~last'.panicked) =>
            /\ buf' = buf /\ Fresh(last'.b)
            /\ heap' = heap /\ views' = views /\ vecs' = vecs
            /\ last'.allocated = {} /\ last'.freed = <<>> /\ ~badFree'
       /\ \A b \in Bufs : \A i \in 1..Len(refs'[b]) :
            /\ StateOf(buf'[b]) = "Fresh"
            /\ Shown(heap', refs'[b][i]) = Shown(heap', RawParts(buf'[b]))]_vars

\* Two VecRefs are alive at once over a buffer holding elements, the second
\* made by cloning the first.
C18_Witness ==
    /\ last.op = "vecref_clone" /\ last.b = "a"
    /\ Len(refs["a"]) = 2 /\ Fresh("a")
    /\ buf["a"].layout = I32Layout /\ buf["a"].len >= 1
    /\ last.ret = RetVec(Shown(heap, RawParts(buf["a"])))

\* C19: in a step in which the destructor of a VecMut writes the re-erased
\* Vec back, the buffer value it overwrites has no allocator, and dropping it
\* calls deallocate zero times and leaves the heap as it was, whether its
\* pointer is the one the Vec still uses or one the Vec already released when
\* it moved.
C19_StaleDropFreesNothing ==
    [][last'.op \in Releases =>
        LET s == buf[last'.b] IN
        /\ last'.stale = s
        /\ ~s.alloc
        /\ last'.freed = <<>> /\ heap' = heap /\ ~badFree'
        /\ (memory(buf'[last'.b]).some /\ s.ptr = buf'[last'.b].ptr) =>
              heap'[s.ptr].live
        /\ (memory(s).some /\ s.ptr # buf'[last'.b].ptr) =>
              ~ValidFree(heap, s.ptr, memory(s).size, memory(s).align)]_vars

\* A VecMut was released after its Vec had moved to another allocation: the
\* overwritten buffer value pointed to a block of one i32 that the Vec had
\* released, and the buffer now points to the live block of two.
C19_Witness ==
    /\ last.op = "vecmut_drop" /\ last.b = "a" /\ Fresh("a")
    /\ memory(last.stale).some /\ last.stale.cap = 1
    /\ last.stale.ptr # buf["a"].ptr
    /\ ~heap[last.stale.ptr].live
    /\ buf["a"].cap = 2 /\ heap[buf["a"].ptr].live

\* The entry points that borrow the buffer and assert it is not leaked.
Asserting == {"get", "get_mut", "get_ref", "allocator", "clone"}

\* C20: a call panics only on a leaked buffer; a step in which get, get_mut,
\* get_ref, allocator or clone panics changes no buffer, view, Vec or heap
\* cell and calls neither allocate nor deallocate; a step in which into_vec
\* panics builds no Vec, drops the buffer it was given and nothing else,
\* and calls neither allocate nor deallocate.
C20_PanicHasNoEffect ==
    [][last'.panicked =>
        /\ last'.op \in Refusing /\ Leaked(last'.b)
        /\ last'.allocated = {} /\ last'.freed = <<>>
        /\ heap' = heap /\ badFree' = badFree
        /\ views' = views /\ refs' = refs /\ vecs' = vecs /\ hist' = hist
        /\ last'.op \in Asserting => buf' = buf
        /\ last'.op = "into_vec" =>
              /\ buf'[last'.b].st = "dropped"
              /\ \A c \in Bufs \ {last'.b} : buf'[c] = buf[c]]_vars

\* into_vec has panicked on a buffer whose VecMut was forgotten: the buffer is
\* gone and the block the forgotten Vec owns is still allocated.
C20_Witness ==
    /\ last.op = "into_vec" /\ last.b = "a" /\ last.panicked
    /\ buf["a"].st = "dropped" /\ HasForgotten("a")
    /\ vecs["a"].st = "none"
    /\ \E i \in 1..Len(views["a"]) :
          /\ VecOwns(views["a"][i].vec.cap, views["a"][i].vec.layout)
          /\ heap[views["a"][i].vec.ptr].live

====
